---- MODULE Spec2Model ----
(***************************************************************************)
(* ChopChop: the scan of src/app/scan.go (one goroutine per domain, a wait *)
(* barrier, the exit decision), the stop-signal handler of the command     *)
(* line entry point (src/unnamed/part_000), and the signature filters and  *)
(* the response matcher of src/core/signatures.go.                         *)
(*                                                                         *)
(* Strings the code only compares or concatenates are TLA+ strings; a      *)
(* string the code searches or splits is a sequence of one-character       *)
(* strings. A URL is the sequence of the pieces the code concatenates.     *)
(***************************************************************************)
EXTENDS Integers, Sequences, FiniteSets, TLC

\* A pointer (*string, *bool, *int32, *http.Response) is a sequence of at most
\* one value: the empty sequence is nil, Ptr(v) points at v.
Nil == << >>
Ptr(v) == <<v>>
Deref(p) == p[1]

\* ------------------------------------------------------------------------
\* Inputs of a scan.
\* ------------------------------------------------------------------------
\* The domain lists (--url and --url-file): none, one, or two domains.  Two
\* goroutines are where the interleavings of Scan first appear.
UrlLists == { << >>, <<"d1">>, <<"d1", "d2">> }

\* ------------------------------------------------------------------------
\* Run configuration.
\* ------------------------------------------------------------------------
\* The "threads" flag: the concurrency limit, default 1.
threads == 1

\* The --prefix and --suffix flags of the scan.
prefix == "http://"
suffix == ".test"

\* The severity scale (data.SeverityType).
Levels == {"Informational", "Low", "Medium", "High"}

\* The values of the --block flag: a level, or empty for "no threshold".
Thresholds == Levels \cup {""}

\* ------------------------------------------------------------------------
\* Signatures given to the scan (data.Config as scan.go reads it).  A check
\* carries the fields scan.go reads, and the status code its response
\* analysis looks at.
\* ------------------------------------------------------------------------
\* The fields a signature file sets.
D == Ptr("description")
R == Ptr("remediation")

MkCheck(name, descr, remed, sev, status) ==
    [PluginName |-> name, Description |-> descr, Remediation |-> remed,
     Severity |-> sev, StatusCode |-> status]

MkPlugin(uri, qs, follow, checks) ==
    [URI |-> uri, QueryString |-> qs, FollowRedirects |-> follow, Checks |-> checks]

\* One plugin, two checks no response matches both.
ConfigA ==
    [Plugins |-> <<
        MkPlugin("/admin", "", Nil,
                 << MkCheck("admin-ok", D, R, Ptr("High"), Ptr(200)),
                    MkCheck("admin-missing", D, R, Ptr("Low"), Ptr(404)) >>) >>]

\* One plugin with a query string; its second check has no condition and
\* matches every response.
ConfigB ==
    [Plugins |-> <<
        MkPlugin("/status", "json=1", Ptr(FALSE),
                 << MkCheck("status-ok", D, R, Ptr("Medium"), Ptr(200)),
                    MkCheck("status-any", D, R, Ptr("Informational"), Nil) >>) >>]

\* Two plugins of one check each.
ConfigTwo ==
    [Plugins |-> <<
        MkPlugin("/login", "", Ptr(TRUE),
                 << MkCheck("login", D, R, Ptr("Low"), Ptr(200)) >>),
        MkPlugin("/debug", "", Nil,
                 << MkCheck("debug", D, R, Ptr("High"), Nil) >>) >>]

\* No plugin at all.
ConfigEmpty == [Plugins |-> << >>]

\* Signatures CheckStructFields rejects: the second check of the second
\* plugin lacks a field or has a severity outside the scale.
ConfigBad(descr, remed, sev) ==
    [Plugins |-> <<
        MkPlugin("/admin", "", Nil,
                 << MkCheck("admin-ok", D, R, Ptr("High"), Ptr(200)) >>),
        MkPlugin("/status", "", Nil,
                 << MkCheck("status-ok", D, R, Ptr("Low"), Ptr(200)),
                    MkCheck("status-bad", descr, remed, sev, Nil) >>) >>]

BadConfigs ==
    { ConfigBad(Nil, R, Ptr("Low")), ConfigBad(D, Nil, Ptr("Low")),
      ConfigBad(D, R, Nil), ConfigBad(D, R, Ptr("Critical")),
      ConfigBad(Nil, Nil, Ptr("Critical")) }

Configs == { ConfigA, ConfigB, ConfigTwo, ConfigEmpty } \cup BadConfigs

\* ------------------------------------------------------------------------
\* State.
\* ------------------------------------------------------------------------
VARIABLES
    \* inputs of a scan
    y,            \* the signatures (data.Config)
    urlList,      \* the domains
    blockedFlag,  \* the --block threshold
    \* Scan's variables shared by the goroutines
    tmpURL, hit, block, out, wg,
    \* the main goroutine
    mainPc,       \* "validate", "spawn", "wait", "report", "decide", "returned", "exited", "fatal"
    fatalMsg,     \* the pieces of the log.Fatal message; empty when none was logged
    exported,     \* Ptr(what was handed to the output writers); Nil when nothing was
    exitCode,     \* Ptr(the process's exit status); Nil while it runs
    \* one goroutine per domain (indexed like urlList)
    wpc,          \* "idle", "loop", "qsRead", "qsWrite", "get", "await", "check", "append", "done"
    pidx, cidx,   \* the plugin and the check the goroutine is at
    reg,          \* the value the goroutine has read but not yet written back
    httpResponse, \* the response the goroutine holds
    \* the stop-signal goroutine of main
    sig,          \* "armed", "raised", "cancelled", "exited", "off"
    \* history of the run (not program state)
    sent,         \* <<worker, plugin>> -> the requests dispatched for it
    got,          \* <<worker, plugin>> -> the outcome of its request
    appended,     \* the <<worker, plugin, check>> whose Hit append has run
    \* the matcher and the filters (used by SpecMatch and SpecFilter)
    mCheck, mResp, mResult,
    fMem, fOps

scanVars == <<y, urlList, blockedFlag, tmpURL, hit, block, out, wg, mainPc, fatalMsg,
              exported, exitCode, wpc, pidx, cidx, reg, httpResponse, sig,
              sent, got, appended>>
matchVars == <<mCheck, mResp, mResult>>
filterVars == <<fMem, fOps>>
vars == <<scanVars, matchVars, filterVars>>

Workers == 1 .. Len(urlList)
PluginIdx == 1 .. Len(y.Plugins)
Pairs == Workers \X PluginIdx

\* ------------------------------------------------------------------------
\* Pure functions of scan.go.
\* ------------------------------------------------------------------------
\* BlockCI with the "Medium" case comparing against Medium alone.
BlockCIMediumOnly(severity, severityType) ==
    CASE severity = "High" -> severityType = "High"
      [] severity = "Medium" -> severityType = "Medium"
      [] severity = "Low" -> severityType \in {"High", "Medium", "Low"}
      [] severity = "Informational" ->
             severityType \in {"High", "Medium", "Low", "Informational"}
      [] OTHER -> FALSE

\* BlockCI(severity, severityType): the --block flag against one severity.
BlockCI(severity, severityType) ==
    CASE severity = "High" -> severityType = "High"
      [] severity = "Medium" -> severityType \in {"High", "Medium"}
      [] severity = "Low" -> severityType \in {"High", "Medium", "Low"}
      [] severity = "Informational" ->
             severityType \in {"High", "Medium", "Low", "Informational"}
      [] OTHER -> FALSE

\* data.SeverityType.IsValid: nil error exactly for the four levels.
IsValid(sev) == sev \in Levels

\* The checks of conf in the order CheckStructFields visits them.
RECURSIVE AllChecks(_)
AllChecks(plugins) ==
    IF plugins = << >> THEN << >>
    ELSE Head(plugins).Checks \o AllChecks(Tail(plugins))

\* The log.Fatal call CheckStructFields makes for one check, as the pieces
\* of its message, or Nil when the check passes.
CheckFault(check) ==
    IF check.Description = Nil
      THEN <<"Missing description field in ", check.PluginName,
             " plugin checks. Stopping execution.">>
    ELSE IF check.Remediation = Nil
      THEN <<"Missing remediation field in ", check.PluginName,
             " plugin checks. Stopping execution.">>
    ELSE IF check.Severity = Nil
      THEN <<"Missing severity field in ", check.PluginName,
             " plugin checks. Stopping execution.">>
    ELSE IF ~IsValid(Deref(check.Severity))
      THEN <<" ------ Unknown severity type : ", Deref(check.Severity),
             " . Only Informational / Low / Medium / High are valid severity types.">>
    ELSE Nil

\* CheckStructFields(conf): the message of the first log.Fatal reached, or
\* Nil when every check passes.
RECURSIVE FirstFault(_)
FirstFault(checks) ==
    IF checks = << >> THEN Nil
    ELSE IF CheckFault(Head(checks)) # Nil THEN CheckFault(Head(checks))
    ELSE FirstFault(Tail(checks))

CheckStructFields(conf) == FirstFault(AllChecks(conf.Plugins))

\* Lines 100-103: the URL of one plugin on one domain.
BaseURL(domain, plugin) == <<prefix, domain, suffix, plugin.URI>>
WithQuery(url, plugin) == url \o <<"?", plugin.QueryString>>

\* Lines 105-110: redirects are followed unless the plugin says false.
FollowRedirectsOf(plugin) ==
    ~(plugin.FollowRedirects # Nil /\ Deref(plugin.FollowRedirects) = FALSE)

\* pkg.HTTPGet: an error with no response, or a response.
HTTPOutcomes == {Nil} \cup { Ptr(r) : r \in [StatusCode : {200, 404}] }

\* pkg.ResponseAnalysis(httpResponse, check).
ResponseAnalysis(response, check) ==
    IF check.StatusCode = Nil THEN TRUE
    ELSE Deref(response).StatusCode = Deref(check.StatusCode)

\* Lines 128-134: the data.Output appended for a matching check.
Output(domain, plugin, check) ==
    [Domain |-> domain, PluginName |-> check.PluginName, TestedURL |-> plugin.URI,
     Severity |-> Deref(check.Severity), Remediation |-> Deref(check.Remediation)]

\* The exit decision without the test for an empty threshold.
ExitStatusNoEmptyTest(h, b, flag) ==
    IF h THEN (IF ~b THEN 0 ELSE 1) ELSE 0

\* Lines 162-170: the exit status of the process once the scan is over.
ExitStatus(h, b, flag) ==
    IF h THEN (IF flag # "" /\ ~b THEN 0 ELSE 1) ELSE 0

\* Line 118: the checks run only on a non-nil response.
AfterResponse(r) == IF r # Nil THEN "check" ELSE "loop"

\* A loop that leaves the goroutine on a failed request.
NextPluginStopOnError(p, r) == IF r = Nil THEN Len(y.Plugins) + 1 ELSE p + 1

\* Line 98: the range loop goes on to the next plugin whatever the request
\* gave.
NextPlugin(p, r) == p + 1

\* Lines 119-122: from check c on, the first check of the plugin that
\* matches; one past the last check when none does.
RECURSIVE FirstAnswer(_, _, _)
FirstAnswer(response, checks, c) ==
    IF c > Len(checks) THEN c
    ELSE IF ResponseAnalysis(response, checks[c]) THEN c
    ELSE FirstAnswer(response, checks, c + 1)

\* ------------------------------------------------------------------------
\* The scan: initial state.
\* ------------------------------------------------------------------------
\* The matcher's and the filters' variables while a scan runs.
MatchIdle == mCheck = << >> /\ mResp = << >> /\ mResult = << >>
FilterIdle == fMem = << >> /\ fOps = << >>

\* The scan's variables while the matcher or the filters are exercised.
ScanIdle ==
    /\ y = ConfigEmpty /\ urlList = << >> /\ blockedFlag = ""
    /\ tmpURL = << >> /\ hit = FALSE /\ block = FALSE /\ out = << >> /\ wg = 0
    /\ mainPc = "off" /\ fatalMsg = << >> /\ exported = Nil /\ exitCode = Nil
    /\ wpc = << >> /\ pidx = << >> /\ cidx = << >> /\ reg = << >>
    /\ httpResponse = << >> /\ sig = "off"
    /\ sent = << >> /\ got = << >> /\ appended = {}

\* Scan is entered with the flags read and the signatures loaded; hit, block
\* and out are as lines 87-89 set them, tmpURL is the empty string (line 44).
InitScan ==
    /\ y \in Configs
    /\ urlList \in UrlLists
    /\ blockedFlag \in Thresholds
    /\ tmpURL = << >> /\ hit = FALSE /\ block = FALSE /\ out = << >> /\ wg = 0
    /\ mainPc = "validate" /\ fatalMsg = << >> /\ exported = Nil /\ exitCode = Nil
    /\ wpc = [w \in Workers |-> "idle"]
    /\ pidx = [w \in Workers |-> 1]
    /\ cidx = [w \in Workers |-> 1]
    /\ reg = [w \in Workers |-> << >>]
    /\ httpResponse = [w \in Workers |-> Nil]
    /\ sig = "armed"
    /\ sent = [pr \in Pairs |-> << >>]
    /\ got = [pr \in Pairs |-> << >>]
    /\ appended = {}

Init == InitScan /\ MatchIdle /\ FilterIdle

\* The process runs until os.Exit or the return of main.
Alive == exitCode = Nil

\* ------------------------------------------------------------------------
\* The main goroutine (Scan, lines 86-170).
\* ------------------------------------------------------------------------
\* Line 86: CheckStructFields(y); log.Fatal ends the process with status 1.
Validate ==
    /\ Alive /\ mainPc = "validate"
    /\ IF CheckStructFields(y) # << >>
         THEN /\ fatalMsg' = CheckStructFields(y)
              /\ exitCode' = Ptr(1)
              /\ mainPc' = "fatal"
         ELSE /\ mainPc' = "spawn"
              /\ UNCHANGED <<fatalMsg, exitCode>>
    /\ UNCHANGED <<y, urlList, blockedFlag, tmpURL, hit, block, out, wg, exported,
                   wpc, pidx, cidx, reg, httpResponse, sig, sent, got, appended>>
    /\ UNCHANGED <<matchVars, filterVars>>

\* Lines 91-141: wg.Add(len(urlList)) and one goroutine per domain.
Spawn ==
    /\ Alive /\ mainPc = "spawn"
    /\ wg' = Len(urlList)
    /\ wpc' = [w \in Workers |-> "loop"]
    /\ mainPc' = "wait"
    /\ UNCHANGED <<y, urlList, blockedFlag, tmpURL, hit, block, out, fatalMsg, exported,
                   exitCode, pidx, cidx, reg, httpResponse, sig, sent, got, appended>>
    /\ UNCHANGED <<matchVars, filterVars>>

\* wg.Wait() left out: the main goroutine goes on to the report at once.
WaitNoBarrier ==
    /\ Alive /\ mainPc = "wait"
    /\ mainPc' = "report"
    /\ UNCHANGED <<y, urlList, blockedFlag, tmpURL, hit, block, out, wg, fatalMsg,
                   exported, exitCode, wpc, pidx, cidx, reg, httpResponse, sig,
                   sent, got, appended>>
    /\ UNCHANGED <<matchVars, filterVars>>

\* Line 143: wg.Wait() returns once every goroutine has called wg.Done().
Wait ==
    /\ Alive /\ mainPc = "wait"
    /\ wg = 0
    /\ mainPc' = "report"
    /\ UNCHANGED <<y, urlList, blockedFlag, tmpURL, hit, block, out, wg, fatalMsg,
                   exported, exitCode, wpc, pidx, cidx, reg, httpResponse, sig,
                   sent, got, appended>>
    /\ UNCHANGED <<matchVars, filterVars>>

\* Lines 145-154: with a hit, out goes to the table, JSON and CSV writers.
Report ==
    /\ Alive /\ mainPc = "report"
    /\ exported' = IF hit THEN Ptr(out) ELSE exported
    /\ mainPc' = "decide"
    /\ UNCHANGED <<y, urlList, blockedFlag, tmpURL, hit, block, out, wg, fatalMsg,
                   exitCode, wpc, pidx, cidx, reg, httpResponse, sig, sent, got, appended>>
    /\ UNCHANGED <<matchVars, filterVars>>

\* Lines 162-170: os.Exit(0 or 1) with a hit; without one Scan returns and
\* the process ends with status 0.
Decide ==
    /\ Alive /\ mainPc = "decide"
    /\ exitCode' = Ptr(ExitStatus(hit, block, blockedFlag))
    /\ mainPc' = IF hit THEN "exited" ELSE "returned"
    /\ UNCHANGED <<y, urlList, blockedFlag, tmpURL, hit, block, out, wg, fatalMsg,
                   exported, wpc, pidx, cidx, reg, httpResponse, sig, sent, got, appended>>
    /\ UNCHANGED <<matchVars, filterVars>>

\* ------------------------------------------------------------------------
\* The goroutine of one domain (lines 95-140).  A step ends at each access to
\* a variable the goroutines share (tmpURL, out) and at the HTTP request.
\* ------------------------------------------------------------------------
domainOf(w) == urlList[w]
pluginOf(w) == y.Plugins[pidx[w]]
checkOf(w) == pluginOf(w).Checks[cidx[w]]

\* Line 100: tmpURL = prefix + domain + suffix + plugin.URI.
SetURL(w) ==
    /\ Alive /\ wpc[w] = "loop"
    /\ pidx[w] <= Len(y.Plugins)
    /\ tmpURL' = BaseURL(domainOf(w), pluginOf(w))
    /\ wpc' = [wpc EXCEPT ![w] = IF pluginOf(w).QueryString # "" THEN "qsRead" ELSE "get"]
    /\ UNCHANGED <<y, urlList, blockedFlag, hit, block, out, wg, mainPc, fatalMsg,
                   exported, exitCode, pidx, cidx, reg, httpResponse, sig,
                   sent, got, appended>>
    /\ UNCHANGED <<matchVars, filterVars>>

\* Lines 101-103, tmpURL += "?" + plugin.QueryString: the read of tmpURL ...
QueryRead(w) ==
    /\ Alive /\ wpc[w] = "qsRead"
    /\ reg' = [reg EXCEPT ![w] = tmpURL]
    /\ wpc' = [wpc EXCEPT ![w] = "qsWrite"]
    /\ UNCHANGED <<y, urlList, blockedFlag, tmpURL, hit, block, out, wg, mainPc, fatalMsg,
                   exported, exitCode, pidx, cidx, httpResponse, sig, sent, got, appended>>
    /\ UNCHANGED <<matchVars, filterVars>>

\* ... and the write of the concatenation.
QueryWrite(w) ==
    /\ Alive /\ wpc[w] = "qsWrite"
    /\ tmpURL' = WithQuery(reg[w], pluginOf(w))
    /\ reg' = [reg EXCEPT ![w] = << >>]
    /\ wpc' = [wpc EXCEPT ![w] = "get"]
    /\ UNCHANGED <<y, urlList, blockedFlag, hit, block, out, wg, mainPc, fatalMsg,
                   exported, exitCode, pidx, cidx, httpResponse, sig, sent, got, appended>>
    /\ UNCHANGED <<matchVars, filterVars>>

\* Line 113: pkg.HTTPGet(insecure, tmpURL, followRedirects, timeout) sends
\* the request for the URL tmpURL holds now.  (Lines 112 and 123 read tmpURL
\* too, for the verbose log alone.)
HTTPGet(w) ==
    /\ Alive /\ wpc[w] = "get"
    /\ sent' = [sent EXCEPT ![<<w, pidx[w]>>] =
                   Append(@, [url |-> tmpURL,
                              followRedirects |-> FollowRedirectsOf(pluginOf(w))])]
    /\ wpc' = [wpc EXCEPT ![w] = "await"]
    /\ UNCHANGED <<y, urlList, blockedFlag, tmpURL, hit, block, out, wg, mainPc, fatalMsg,
                   exported, exitCode, pidx, cidx, reg, httpResponse, sig, got, appended>>
    /\ UNCHANGED <<matchVars, filterVars>>

\* Where goroutine w stands once it has looked at the checks from c on of
\* plugin p with response r (lines 118-139): at the next matching check, or,
\* the body closed, at the next plugin.  Evaluating a check touches nothing
\* the goroutines share.
Settle(w, p, r, c) ==
    LET checks == y.Plugins[p].Checks
        hitAt == IF AfterResponse(r) = "check" THEN FirstAnswer(r, checks, c)
                 ELSE Len(checks) + 1
        more == hitAt <= Len(checks)
    IN /\ wpc' = [wpc EXCEPT ![w] = IF more THEN "check" ELSE "loop"]
       /\ pidx' = [pidx EXCEPT ![w] = IF more THEN p ELSE NextPlugin(p, r)]
       /\ cidx' = [cidx EXCEPT ![w] = IF more THEN hitAt ELSE 1]
       /\ httpResponse' = [httpResponse EXCEPT ![w] = IF more THEN r ELSE Nil]

\* Lines 113-122: HTTPGet returns r, an error (nil response) or a response.
HTTPReturn(w, r) ==
    /\ Alive /\ wpc[w] = "await"
    /\ got' = [got EXCEPT ![<<w, pidx[w]>>] = <<r>>]
    /\ Settle(w, pidx[w], r, 1)
    /\ UNCHANGED <<y, urlList, blockedFlag, tmpURL, hit, block, out, wg, mainPc, fatalMsg,
                   exported, exitCode, reg, sig, sent, appended>>
    /\ UNCHANGED <<matchVars, filterVars>>

\* Lines 122-128: a check that matches sets hit, sets block when BlockCI says
\* so, and reads out for the append.
CheckHit(w) ==
    /\ Alive /\ wpc[w] = "check"
    /\ hit' = TRUE
    /\ block' = IF BlockCI(blockedFlag, Deref(checkOf(w).Severity)) THEN TRUE ELSE block
    /\ reg' = [reg EXCEPT ![w] = out]
    /\ wpc' = [wpc EXCEPT ![w] = "append"]
    /\ UNCHANGED <<y, urlList, blockedFlag, tmpURL, out, wg, mainPc, fatalMsg,
                   exported, exitCode, pidx, cidx, httpResponse, sig, sent, got, appended>>
    /\ UNCHANGED <<matchVars, filterVars>>

\* Lines 128-139: out = append(<out as read>, data.Output{...}), then on to
\* the remaining checks.
AppendOut(w) ==
    /\ Alive /\ wpc[w] = "append"
    /\ out' = Append(reg[w], Output(domainOf(w), pluginOf(w), checkOf(w)))
    /\ appended' = appended \cup {<<w, pidx[w], cidx[w]>>}
    /\ reg' = [reg EXCEPT ![w] = << >>]
    /\ Settle(w, pidx[w], httpResponse[w], cidx[w] + 1)
    /\ UNCHANGED <<y, urlList, blockedFlag, tmpURL, hit, block, wg, mainPc, fatalMsg,
                   exported, exitCode, sig, sent, got>>
    /\ UNCHANGED <<matchVars, filterVars>>

\* Lines 96, 140: past the last plugin the goroutine ends; wg.Done() runs.
WorkerDone(w) ==
    /\ Alive /\ wpc[w] = "loop"
    /\ pidx[w] > Len(y.Plugins)
    /\ wg' = wg - 1
    /\ wpc' = [wpc EXCEPT ![w] = "done"]
    /\ UNCHANGED <<y, urlList, blockedFlag, tmpURL, hit, block, out, mainPc, fatalMsg,
                   exported, exitCode, pidx, cidx, reg, httpResponse, sig,
                   sent, got, appended>>
    /\ UNCHANGED <<matchVars, filterVars>>

Next ==
    \/ Validate
    \/ Spawn
    \/ Wait
    \/ Report
    \/ Decide
    \/ \E w \in Workers : SetURL(w)
    \/ \E w \in Workers : QueryRead(w)
    \/ \E w \in Workers : QueryWrite(w)
    \/ \E w \in Workers : HTTPGet(w)
    \/ \E w \in Workers, r \in HTTPOutcomes : HTTPReturn(w, r)
    \/ \E w \in Workers : CheckHit(w)
    \/ \E w \in Workers : AppendOut(w)
    \/ \E w \in Workers : WorkerDone(w)

Spec == Init /\ [][Next]_vars

\* ------------------------------------------------------------------------
\* The stop-signal goroutine of main (part_000, lines 163-180), beside the
\* scan.
\* ------------------------------------------------------------------------
\* SIGINT or SIGTERM is delivered to the channel sigs.
Signal ==
    /\ Alive /\ sig = "armed"
    /\ sig' = "raised"
    /\ UNCHANGED <<y, urlList, blockedFlag, tmpURL, hit, block, out, wg, mainPc, fatalMsg,
                   exported, exitCode, wpc, pidx, cidx, reg, httpResponse,
                   sent, got, appended>>
    /\ UNCHANGED <<matchVars, filterVars>>

\* Lines 173-175: the goroutine receives from sigs, logs and calls cancel().
HandlerCancel ==
    /\ Alive /\ sig = "raised"
    /\ sig' = "cancelled"
    /\ UNCHANGED <<y, urlList, blockedFlag, tmpURL, hit, block, out, wg, mainPc, fatalMsg,
                   exported, exitCode, wpc, pidx, cidx, reg, httpResponse,
                   sent, got, appended>>
    /\ UNCHANGED <<matchVars, filterVars>>

\* Line 176: os.Exit(1).
HandlerExit ==
    /\ Alive /\ sig = "cancelled"
    /\ sig' = "exited"
    /\ exitCode' = Ptr(1)
    /\ UNCHANGED <<y, urlList, blockedFlag, tmpURL, hit, block, out, wg, mainPc, fatalMsg,
                   exported, wpc, pidx, cidx, reg, httpResponse, sent, got, appended>>
    /\ UNCHANGED <<matchVars, filterVars>>

NextCancel == Next \/ Signal \/ HandlerCancel \/ HandlerExit

SpecCancel == Init /\ [][NextCancel]_vars

\* ------------------------------------------------------------------------
\* What the properties of the scan speak of.
\* ------------------------------------------------------------------------
\* The requests dispatched and not yet returned.
InFlight == Cardinality({ w \in Workers : wpc[w] = "await" })

\* wg.Wait() has returned.
BarrierPassed == mainPc \in {"report", "decide", "exited", "returned"}

\* The scan has run to its end (not killed by a signal, not refused).
ScanEnded == mainPc \in {"exited", "returned"}

Triples ==
    UNION { { <<w, p, c>> : c \in DOMAIN y.Plugins[p].Checks } :
            w \in Workers, p \in PluginIdx }

\* The (worker, plugin, check) whose check matches the response the worker
\* obtained for the plugin.
Matching ==
    { t \in Triples :
        /\ got[<<t[1], t[2]>>] # << >>
        /\ got[<<t[1], t[2]>>][1] # Nil
        /\ ResponseAnalysis(got[<<t[1], t[2]>>][1], y.Plugins[t[2]].Checks[t[3]]) }

HitOf(t) == Output(urlList[t[1]], y.Plugins[t[2]], y.Plugins[t[2]].Checks[t[3]])
SeverityOf(t) == Deref(y.Plugins[t[2]].Checks[t[3]].Severity)

Count(seq, x) == Cardinality({ i \in DOMAIN seq : seq[i] = x })

\* The order Informational < Low < Medium < High.
Rank == [l \in Levels |->
            CASE l = "Informational" -> 0 [] l = "Low" -> 1
              [] l = "Medium" -> 2 [] l = "High" -> 3]

\* Some Hit of the scan has a severity at or above the threshold.
SomeHitReaches(threshold) ==
    \E t \in Matching : Rank[SeverityOf(t)] >= Rank[threshold]

\* The URL the scan is to request for plugin p on the domain of worker w.
OwnURL(w, p) ==
    LET plugin == y.Plugins[p]
        base == <<prefix, urlList[w], suffix, plugin.URI>>
    IN IF plugin.QueryString = "" THEN base ELSE base \o <<"?", plugin.QueryString>>

\* A check that lacks a mandatory field or has a severity off the scale.
Malformed(check) ==
    IF check.Description = Nil \/ check.Remediation = Nil \/ check.Severity = Nil
      THEN TRUE
      ELSE Deref(check.Severity) \notin Levels

\* The first malformed check of the signatures, in file order.
Offending ==
    LET cs == AllChecks(y.Plugins)
        i == CHOOSE i \in DOMAIN cs :
                 Malformed(cs[i]) /\ \A j \in 1 .. (i - 1) : ~Malformed(cs[j])
    IN cs[i]

NoRequestSent == \A pr \in Pairs : sent[pr] = << >>

\* ------------------------------------------------------------------------
\* C1.  At most `threads` HTTP GET requests are dispatched and not yet
\* returned, in every reachable state of a scan.
\* (Scan starts one goroutine per domain and never reads the limit.)
\* ------------------------------------------------------------------------
C1_InFlightWithinThreads == InFlight <= threads

\* ------------------------------------------------------------------------
\* C2.  Once the wait barrier is passed, out holds exactly one Hit for each
\* (domain, plugin, check) whose check matched the response obtained for that
\* domain and plugin, and no other Hit.
\* (The goroutines append to out without synchronisation.)
\* ------------------------------------------------------------------------
C2_HitsExactAtBarrier ==
    BarrierPassed =>
        /\ \A t \in Matching : Count(out, HitOf(t)) = 1
        /\ \A i \in DOMAIN out : \E t \in Matching : out[i] = HitOf(t)

\* ------------------------------------------------------------------------
\* C3.  After the stop signal has been handled (cancel() called) no new HTTP
\* request is dispatched, and when the process ends on the signal the Hits
\* collected so far have been handed to the output writers.
\* (The handler calls os.Exit(1) right after cancel(); Scan never looks at
\* the cancellation.)
\* ------------------------------------------------------------------------
C3_CancelStopsAndReturnsHits ==
    [][ /\ (sig = "cancelled" => sent' = sent)
        /\ (sig = "cancelled" /\ sig' = "exited" /\ out # << >>
               => exported' = Ptr(out)) ]_vars

\* ------------------------------------------------------------------------
\* C4.  At the end of a scan the exit status is non-zero exactly when Hits
\* exist and either the threshold is empty or some Hit's severity is at or
\* above it; otherwise it is zero.
\* ------------------------------------------------------------------------
C4_ExitCode ==
    ScanEnded =>
        exitCode = Ptr(IF Matching # {}
                          /\ (blockedFlag = "" \/ SomeHitReaches(blockedFlag))
                       THEN 1 ELSE 0)

\* Hits exist, a threshold is set, no Hit reaches it: the scan ends with 0.
C4_Witness ==
    /\ ScanEnded /\ exitCode = Ptr(0)
    /\ Matching # {} /\ blockedFlag # "" /\ ~SomeHitReaches(blockedFlag)

\* ------------------------------------------------------------------------
\* C5.  The block flag the scan has accumulated when the barrier is passed is
\* true iff the threshold is non-empty and the maximum severity among the
\* Hits produced is at or above the threshold; with an empty threshold it is
\* false.
\* ------------------------------------------------------------------------
MaxRank(S) == CHOOSE r \in S : \A q \in S : q <= r

C5_BlockIffMaxReaches ==
    BarrierPassed =>
        block = ( /\ blockedFlag # ""
                  /\ Matching # {}
                  /\ MaxRank({ Rank[SeverityOf(t)] : t \in Matching }) >= Rank[blockedFlag] )

\* Hits of two severities, one below and one above the threshold.
C5_Witness ==
    /\ BarrierPassed /\ block /\ blockedFlag = "Medium"
    /\ \E t \in Matching : SeverityOf(t) = "Low"
    /\ \E t \in Matching : SeverityOf(t) = "High"

\* ------------------------------------------------------------------------
\* C6.  A request that fails gives no Hit for its (domain, plugin), and the
\* scan goes on: every goroutine still sends one request for each of its
\* plugins, and every check that matches a response obtained still has its
\* Hit appended.
\* ------------------------------------------------------------------------
C6_FailureIsLocal ==
    /\ \A t \in Triples :
          got[<<t[1], t[2]>>] = <<Nil>> =>
              t \notin appended /\ Count(out, HitOf(t)) = 0
    /\ \A w \in Workers :
          wpc[w] = "done" =>
              \A p \in PluginIdx : Len(sent[<<w, p>>]) = 1 /\ got[<<w, p>>] # << >>
    /\ BarrierPassed =>
          /\ \A w \in Workers : wpc[w] = "done"
          /\ \A t \in Matching : t \in appended

\* The first request of a goroutine failed, its second plugin gave a Hit.
C6_Witness ==
    /\ BarrierPassed
    /\ \E w \in Workers :
          /\ Len(y.Plugins) = 2
          /\ got[<<w, 1>>] = <<Nil>>
          /\ <<w, 2, 1>> \in appended
          /\ Count(out, HitOf(<<w, 2, 1>>)) = 1

\* ------------------------------------------------------------------------
\* C7.  For every (domain, plugin) the scan dispatches exactly one HTTP GET,
\* for the URL prefix + domain + suffix + endpoint (+ "?" + query string):
\* never a URL built for another goroutine's domain or plugin.
\* (tmpURL is one variable of Scan that every goroutine writes and reads.)
\* ------------------------------------------------------------------------
C7_OneGetPerPairOwnURL ==
    \A pr \in Pairs :
        /\ Len(sent[pr]) <= 1
        /\ \A i \in DOMAIN sent[pr] : sent[pr][i].url = OwnURL(pr[1], pr[2])
        /\ wpc[pr[1]] = "done" => Len(sent[pr]) = 1

\* ------------------------------------------------------------------------
\* C8.  With a check that lacks description, remediation or severity, or has
\* a severity off the scale, the run aborts with a fatal error that names the
\* offending plugin/check, and no HTTP request is ever dispatched.
\* (The unknown-severity message carries the severity, not the name.)
\* ------------------------------------------------------------------------
C8_BadSignaturesAbortNamed ==
    (y \in BadConfigs /\ mainPc # "validate") =>
        /\ mainPc = "fatal" /\ exitCode = Ptr(1)
        /\ NoRequestSent
        /\ \E i \in DOMAIN fatalMsg : fatalMsg[i] = Offending.PluginName

\* The part of C8 the code keeps: bad signatures end the run before any
\* goroutine is started, and requests are sent only once validation passed.
ValidationPrecedesRequests ==
    /\ y \in BadConfigs => NoRequestSent /\ mainPc \in {"validate", "fatal"}
    /\ ~NoRequestSent => CheckStructFields(y) = << >> /\ mainPc # "validate"

\* ========================================================================
\* The response matcher (core/signatures.go, Check.Match).
\* ========================================================================
\* Longest value part of a headers / no_headers entry the inputs hold.
MaxValueLen == 2

\* strings.Contains(str, substr).
Contains(str, substr) ==
    \E i \in 0 .. (Len(str) - Len(substr)) : SubSeq(str, i + 1, i + Len(substr)) = substr

\* strings.Split(str, ":"): the pieces between the colons, one more than
\* there are colons.
RECURSIVE Split(_)
Split(str) ==
    IF \A i \in DOMAIN str : str[i] # ":" THEN <<str>>
    ELSE LET i == CHOOSE i \in DOMAIN str :
                      str[i] = ":" /\ \A j \in 1 .. (i - 1) : str[j] # ":"
         IN <<SubSeq(str, 1, i - 1)>> \o Split(SubSeq(str, i + 1, Len(str)))

\* Lines 86-90: every all_match string is in the body.
RECURSIVE AllFound(_, _)
AllFound(body, matches) ==
    IF matches = << >> THEN TRUE
    ELSE IF ~Contains(body, Head(matches)) THEN FALSE
    ELSE AllFound(body, Tail(matches))

\* Lines 94-99, 107-111: the loop over a list looking for one string that is
\* in the body.
RECURSIVE AnyFound(_, _)
AnyFound(body, matches) ==
    IF matches = << >> THEN FALSE
    ELSE IF Contains(body, Head(matches)) THEN TRUE
    ELSE AnyFound(body, Tail(matches))

\* pHeaders[1] (Go counts from 0): a run-time panic when the entry has no
\* colon.  values is the list the loop ranges over; with no value the index
\* expression is never evaluated.
RECURSIVE ValueScan(_, _)
ValueScan(values, parts) ==
    IF values = << >> THEN "none"
    ELSE IF Len(parts) < 2 THEN "panic"
    ELSE IF Contains(Head(values), parts[2]) THEN "found"
    ELSE ValueScan(Tail(values), parts)

\* Lines 115-132: the required headers, entry by entry: "pass", "false" or
\* "panic".
RECURSIVE HeadersLoop(_, _)
HeadersLoop(entries, header) ==
    IF entries = << >> THEN "pass"
    ELSE LET pHeaders == Split(Head(entries))
             kFound == pHeaders[1] \in DOMAIN header
             scan == ValueScan(header[pHeaders[1]], pHeaders)
         IN IF kFound
              THEN IF scan = "panic" THEN "panic"
                   ELSE IF scan = "none" THEN "false"
                   ELSE HeadersLoop(Tail(entries), header)
              ELSE "false"

\* Lines 135-150: the forbidden headers.  With the key absent v is the nil
\* slice and the last branch ranges over nothing.
RECURSIVE NoHeadersLoop(_, _)
NoHeadersLoop(entries, header) ==
    IF entries = << >> THEN "pass"
    ELSE LET pNoHeaders == Split(Head(entries))
             kFound == pNoHeaders[1] \in DOMAIN header
             v == IF kFound THEN header[pNoHeaders[1]] ELSE << >>
             scan == ValueScan(v, pNoHeaders)
         IN IF kFound THEN "false"
            ELSE IF kFound /\ Len(pNoHeaders) = 1 THEN "false"
            ELSE IF scan = "panic" THEN "panic"
            ELSE IF scan = "found" THEN "false"
            ELSE NoHeadersLoop(Tail(entries), header)

\* Check.Match(resp): "true", "false", or "panic" when it ends in a run-time
\* error.
Match(check, resp) ==
    IF check.StatusCode # Nil /\ resp.StatusCode # Deref(check.StatusCode) THEN "false"
    ELSE IF ~AllFound(resp.Body, check.MustMatchAll) THEN "false"
    ELSE IF Len(check.MustMatchOne) > 0 /\ ~AnyFound(resp.Body, check.MustMatchOne)
      THEN "false"
    ELSE IF Len(check.MustNotMatch) > 0 /\ AnyFound(resp.Body, check.MustNotMatch)
      THEN "false"
    ELSE IF Len(check.Headers) > 0 /\ HeadersLoop(check.Headers, resp.Header) # "pass"
      THEN HeadersLoop(check.Headers, resp.Header)
    ELSE IF Len(check.NoHeaders) > 0 /\ NoHeadersLoop(check.NoHeaders, resp.Header) # "pass"
      THEN NoHeadersLoop(check.NoHeaders, resp.Header)
    ELSE "true"

\* ------------------------------------------------------------------------
\* Inputs of the matcher: checks and responses.
\* ------------------------------------------------------------------------
StringsUpTo(alphabet, n) == UNION { [1 .. k -> alphabet] : k \in 0 .. n }

HeaderNames == { <<"X">>, <<"Y">> }

\* What follows the name in an entry: nothing, or ":" and a value that may
\* itself hold colons.
EntryTails ==
    { << >> } \cup { <<":">> \o v : v \in StringsUpTo({"a", ":"}, MaxValueLen) }

Entries == { name \o tail : name \in HeaderNames, tail \in EntryTails }

\* headers / no_headers lists: empty, one entry, or one of a few pairs.
EntryLists ==
    { << >> } \cup { <<e>> : e \in Entries }
    \cup { << <<"Y", ":", "a">>, <<"X", ":", "a">> >>,
           << <<"X", ":", "a">>, <<"Y">> >> }

\* The values one response header can carry.
ValueLists == { << >>, << <<"a">> >>, << <<"b">> >>, << <<"b">>, <<"a", ":", "a">> >> }

\* resp.Header: any of the names, each with a list of values.
HeaderMaps == UNION { [names -> ValueLists] : names \in SUBSET HeaderNames }

NoHeader == CHOOSE h \in HeaderMaps : DOMAIN h = {}

\* Checks and responses that vary the header conditions ...
HeaderInputs ==
    [StatusCode : {Nil, Ptr(200)}, MustMatchAll : {<< >>}, MustMatchOne : {<< >>},
     MustNotMatch : {<< >>}, Headers : EntryLists, NoHeaders : EntryLists]
    \X [StatusCode : {200}, Body : {<<"a", "b">>}, Header : HeaderMaps]

\* ... and that vary the status and body conditions.
BodyInputs ==
    [StatusCode : {Nil, Ptr(200)},
     MustMatchAll : {<< >>, << <<"a">>, <<"b">> >>, << <<"a">>, <<"c">> >>},
     MustMatchOne : {<< >>, << <<"c">>, <<"a", "b">> >>, << <<"c">> >>},
     MustNotMatch : {<< >>, << <<"c">>, <<"b">> >>, << <<"c">> >>},
     Headers : {<< >>, << <<"X", ":", "a">> >>},
     NoHeaders : {<< >>, << <<"Y", ":", "a">> >>}]
    \X [StatusCode : {200, 404}, Body : {<< >>, <<"a", "b">>},
        Header : {NoHeader, [n \in {<<"X">>} |-> << <<"a">> >>]}]

MatchInputs == HeaderInputs \cup BodyInputs

InitMatch ==
    /\ ScanIdle /\ FilterIdle
    /\ \E in \in MatchInputs : mCheck = in[1] /\ mResp = in[2]
    /\ mResult = "none"

\* check.Match(resp) is called and ends.
DoMatch ==
    /\ mResult = "none"
    /\ mResult' = Match(mCheck, mResp)
    /\ UNCHANGED <<mCheck, mResp>>
    /\ UNCHANGED <<scanVars, filterVars>>

NextMatch == DoMatch

SpecMatch == InitMatch /\ [][NextMatch]_vars

\* ------------------------------------------------------------------------
\* What the properties of the matcher speak of.
\* ------------------------------------------------------------------------
HasColon(entry) == \E i \in DOMAIN entry : entry[i] = ":"

\* The name of an entry: what stands before its first colon.
EntryName(entry) ==
    LET stops == { i \in DOMAIN entry : entry[i] = ":" } \cup { Len(entry) + 1 }
        first == CHOOSE i \in stops : \A j \in stops : i <= j
    IN SubSeq(entry, 1, first - 1)

\* seq without its i-th element.
Without(seq, i) == SubSeq(seq, 1, i - 1) \o SubSeq(seq, i + 1, Len(seq))

\* The rule of a forbidden-header entry name:substring, for the check and
\* response at hand: with the header present the result is "false"; with it
\* absent the result is what it is without the entry.
NoHeadersRule ==
    \A i \in DOMAIN mCheck.NoHeaders :
        HasColon(mCheck.NoHeaders[i]) =>
            IF EntryName(mCheck.NoHeaders[i]) \in DOMAIN mResp.Header
              THEN mResult = "false"
              ELSE mResult = Match([mCheck EXCEPT !.NoHeaders = Without(@, i)], mResp)

\* ------------------------------------------------------------------------
\* C9.  For every check with a no_headers entry name:substring and every
\* response: if the response has a header of that name Match returns false,
\* whatever the values; if it has none, the entry never makes Match fail.
\* (Match ends in a run-time error before it reaches no_headers when a
\* headers entry has no colon and its header is present with a value.)
\* ------------------------------------------------------------------------
C9_NoHeadersRule == mResult # "none" => NoHeadersRule

\* The part of C9 the code keeps: the rule holds whenever Match returns.
NoHeadersRuleUnlessPanic == mResult \in {"true", "false"} => NoHeadersRule

\* ========================================================================
\* The signature filters (core/signatures.go, FilterBySeverity and
\* FilterByNames).
\*
\* Memory: s.Plugins is a slice (arr, len) of pointers to plugins; the heap
\* gives for each plugin its Checks slice (arr, len).  arr is the whole
\* backing array, len the length of the slice over it; a slice starts at the
\* first element of its array.
\* ========================================================================
\* Most checks in one plugin of the loaded signatures.
MaxChecks == 2

\* Most filter calls in one run.
MaxFilterOps == 2

\* strings.ToLower, on the letters the names are written in.
LowerOf(c) == CASE c = "A" -> "a" [] c = "B" -> "b" [] OTHER -> c
ToLower(str) == [i \in DOMAIN str |-> LowerOf(str[i])]

\* The loop over names with the letters compared as they are written.
RECURSIVE NameMatchesCaseSensitive(_, _)
NameMatchesCaseSensitive(checkName, names) ==
    IF names = << >> THEN FALSE
    ELSE IF Contains(checkName, Head(names)) THEN TRUE
    ELSE NameMatchesCaseSensitive(checkName, Tail(names))

\* Lines 62-67: the loop over names, up to the first one check.Name contains.
RECURSIVE NameMatches(_, _)
NameMatches(checkName, names) ==
    IF names = << >> THEN FALSE
    ELSE IF Contains(ToLower(checkName), ToLower(Head(names))) THEN TRUE
    ELSE NameMatches(checkName, Tail(names))

\* Line 45 and lines 62-67: does the filter keep the check?
Keeps(filter, check) ==
    IF filter.by = "severity" THEN check.Severity = filter.arg
    ELSE NameMatches(check.Name, filter.arg)

\* Lines 43-48 and 60-68: filteredChecks := plugin.Checks[:0], then every
\* kept check is appended to it, that is written into the array of
\* plugin.Checks at the next free place.  From check j on, with k kept.
RECURSIVE CheckLoop(_, _, _, _, _)
CheckLoop(carr, clen, j, k, filter) ==
    IF j > clen THEN [arr |-> carr, len |-> k]
    ELSE IF Keeps(filter, carr[j])
      THEN CheckLoop([carr EXCEPT ![k + 1] = carr[j]], clen, j + 1, k + 1, filter)
    ELSE CheckLoop(carr, clen, j + 1, k, filter)

\* Lines 41-53 and 58-73: filteredPlugins := s.Plugins[:0], then every plugin
\* that keeps a check gets plugin.Checks = filteredChecks and is appended to
\* filteredPlugins, in the array of s.Plugins.  From plugin i on of the n the
\* range loop covers, with k kept.
RECURSIVE PluginLoop(_, _, _, _, _, _)
PluginLoop(parr, heap, n, i, k, filter) ==
    IF i > n THEN [arr |-> parr, len |-> k, heap |-> heap]
    ELSE LET plugin == parr[i]
             filteredChecks == CheckLoop(heap[plugin].arr, heap[plugin].len, 1, 0, filter)
         IN IF filteredChecks.len > 0
              THEN PluginLoop([parr EXCEPT ![k + 1] = plugin],
                              [heap EXCEPT ![plugin] = filteredChecks],
                              n, i + 1, k + 1, filter)
              ELSE PluginLoop(parr, heap, n, i + 1, k, filter)

\* The plugins with a check of the severity, their checks left as they are.
FilterBySeverityWholePlugins(mem, severityFilter) ==
    LET has(plugin) ==
            \E j \in 1 .. mem.heap[plugin].len :
                mem.heap[plugin].arr[j].Severity = severityFilter
        kept == SelectSeq(SubSeq(mem.arr, 1, mem.len), has)
    IN [mem EXCEPT !.arr = kept \o SubSeq(mem.arr, Len(kept) + 1, Len(mem.arr)),
                   !.len = Len(kept)]

\* Lines 40-55.
FilterBySeverity(mem, severityFilter) ==
    PluginLoop(mem.arr, mem.heap, mem.len, 1, 0,
               [by |-> "severity", arg |-> severityFilter])

\* Lines 57-75.
FilterByNames(mem, names) ==
    PluginLoop(mem.arr, mem.heap, mem.len, 1, 0, [by |-> "names", arg |-> names])

\* ------------------------------------------------------------------------
\* Inputs of the filters.
\* ------------------------------------------------------------------------
\* The checks signatures are made of (name, severity).
CheckPool ==
    { [Name |-> <<"A", "b">>, Severity |-> "High"],
      [Name |-> <<"b">>, Severity |-> "Low"],
      [Name |-> <<"a">>, Severity |-> "High"] }

CheckLists == UNION { [1 .. k -> CheckPool] : k \in 0 .. MaxChecks }

\* Freshly loaded signatures: up to two plugins, every slice as long as its
\* array.
LoadedSignatures ==
    { [arr |-> [i \in 1 .. Len(cl) |-> i],
       len |-> Len(cl),
       heap |-> [i \in 1 .. Len(cl) |-> [arr |-> cl[i], len |-> Len(cl[i])]]] :
      cl \in UNION { [1 .. n -> CheckLists] : n \in {0, 1, 2} } }

\* Levels: two the pool has, one it has not.
SeverityArgs == {"High", "Low", "Medium"}
\* Name lists: none, one name, a name in upper case, two names, the empty name.
NameArgs ==
    { << >>, << <<"a">> >>, << <<"B">> >>, << <<"x">>, <<"A", "B">> >>, << << >> >> }

InitFilter ==
    /\ ScanIdle /\ MatchIdle
    /\ fMem \in LoadedSignatures
    /\ fOps = [n |-> 0, last |-> "none"]

\* s.FilterBySeverity(l).
ApplySeverity(l) ==
    /\ fOps.n < MaxFilterOps
    /\ fMem' = FilterBySeverity(fMem, l)
    /\ fOps' = [n |-> fOps.n + 1, last |-> "severity"]
    /\ UNCHANGED <<scanVars, matchVars>>

\* s.FilterByNames(ns).
ApplyNames(ns) ==
    /\ fOps.n < MaxFilterOps
    /\ fMem' = FilterByNames(fMem, ns)
    /\ fOps' = [n |-> fOps.n + 1, last |-> "names"]
    /\ UNCHANGED <<scanVars, matchVars>>

NextFilter ==
    \/ \E l \in SeverityArgs : ApplySeverity(l)
    \/ \E ns \in NameArgs : ApplyNames(ns)

SpecFilter == InitFilter /\ [][NextFilter]_vars

\* ------------------------------------------------------------------------
\* What the properties of the filters speak of.
\* ------------------------------------------------------------------------
\* The signature set seen through s: its plugins in order, each with the
\* checks of its Checks slice.
View(mem) ==
    [i \in 1 .. mem.len |->
        [plugin |-> mem.arr[i],
         checks |-> SubSeq(mem.heap[mem.arr[i]].arr, 1, mem.heap[mem.arr[i]].len)]]

\* ------------------------------------------------------------------------
\* C10.  FilterBySeverity and FilterByNames are idempotent (a second call
\* with the same argument leaves the signature set as the first left it) and
\* commute (either order gives the same plugins and the same check list for
\* each), for every signature set, level and name list.
\* ------------------------------------------------------------------------
C10_IdempotentAndCommute ==
    /\ \A l \in SeverityArgs :
           View(FilterBySeverity(FilterBySeverity(fMem, l), l))
              = View(FilterBySeverity(fMem, l))
    /\ \A ns \in NameArgs :
           View(FilterByNames(FilterByNames(fMem, ns), ns))
              = View(FilterByNames(fMem, ns))
    /\ \A l \in SeverityArgs, ns \in NameArgs :
           View(FilterByNames(FilterBySeverity(fMem, l), ns))
              = View(FilterBySeverity(FilterByNames(fMem, ns), l))

\* Both filters have run on signatures of two plugins: one plugin is gone,
\* the other has lost a check and kept one.
C10_Witness ==
    /\ fOps.n = 2 /\ fOps.last = "names"
    /\ Len(fMem.arr) = 2 /\ fMem.len = 1
    /\ fMem.heap[fMem.arr[1]].len = 1
    /\ Len(fMem.heap[fMem.arr[1]].arr) = 2

\* What another reference to the loaded data shows: a copy of the slice
\* s.Plugins taken at load time spans the whole array of plugin pointers, and
\* each pointer leads to the one Plugin object, whose Checks field the
\* filters assign (lines 50, 70).
HolderView(mem) ==
    [i \in 1 .. Len(mem.arr) |->
        [plugin |-> mem.arr[i],
         checks |-> SubSeq(mem.heap[mem.arr[i]].arr, 1, mem.heap[mem.arr[i]].len)]]

\* ------------------------------------------------------------------------
\* C11.  A call of FilterBySeverity or FilterByNames changes nothing that
\* another reference to the original data shows: the holder of the original
\* plugin list, or of an original Plugin object, sees the same plugins in the
\* same positions and the same check list for each plugin as before it.
\* (The filters write the kept plugins into the array of s.Plugins and
\* assign plugin.Checks of the one Plugin object.)
\* ------------------------------------------------------------------------
C11_FilterFrame == [][HolderView(fMem') = HolderView(fMem)]_vars

\* ========================================================================
\* Further properties of the matcher (Check.Match, SpecMatch).
\* ========================================================================
\* The substring of an entry name:substring: all that follows its first
\* colon.
EntrySubstring(entry) == SubSeq(entry, Len(EntryName(entry)) + 2, Len(entry))

\* The response has a header of the entry's name, one of whose values
\* contains the entry's substring.
EntryPasses(entry, header) ==
    /\ EntryName(entry) \in DOMAIN header
    /\ \E k \in DOMAIN header[EntryName(entry)] :
           Contains(header[EntryName(entry)][k], EntrySubstring(entry))

\* The rule of a required-header entry name:substring, for the check and
\* response at hand: when the entry passes the result is what it is without
\* the entry; when it does not the result is "false".
HeadersRuleAt(i) ==
    IF EntryPasses(mCheck.Headers[i], mResp.Header)
      THEN mResult = Match([mCheck EXCEPT !.Headers = Without(@, i)], mResp)
      ELSE mResult = "false"

HeadersRule ==
    \A i \in DOMAIN mCheck.Headers : HasColon(mCheck.Headers[i]) => HeadersRuleAt(i)

\* ------------------------------------------------------------------------
\* C12.  For every check with a headers entry name:substring and every
\* response: the entry passes if and only if the response has a header named
\* exactly name with at least one value that contains substring, substring
\* being the whole text after the first colon of the entry, further colons
\* included; a missing header or no matching value makes Match return false.
\* (Match looks for the text between the first and the second colon.)
\* ------------------------------------------------------------------------
C12_HeadersRule == mResult # "none" => HeadersRule

\* The part of C12 the code keeps: the rule holds for the entries with one
\* colon whenever Match returns.
HeadersRuleOneColon ==
    mResult \in {"true", "false"} =>
        \A i \in DOMAIN mCheck.Headers :
            Len(Split(mCheck.Headers[i])) = 2 => HeadersRuleAt(i)

\* The conditions of a check, each as the signature format states it; a
\* condition that is not configured passes.
StatusPasses(check, resp) ==
    check.StatusCode = Nil \/ check.StatusCode = Ptr(resp.StatusCode)

AllMatchPasses(check, resp) ==
    \A i \in DOMAIN check.MustMatchAll : Contains(resp.Body, check.MustMatchAll[i])

MatchPasses(check, resp) ==
    check.MustMatchOne = << >>
    \/ \E i \in DOMAIN check.MustMatchOne : Contains(resp.Body, check.MustMatchOne[i])

NoMatchPasses(check, resp) ==
    \A i \in DOMAIN check.MustNotMatch : ~Contains(resp.Body, check.MustNotMatch[i])

HeadersPass(check, resp) ==
    \A i \in DOMAIN check.Headers : EntryPasses(check.Headers[i], resp.Header)

NoHeadersPass(check, resp) ==
    \A i \in DOMAIN check.NoHeaders : EntryName(check.NoHeaders[i]) \notin DOMAIN resp.Header

ConditionsPass(check, resp) ==
    /\ StatusPasses(check, resp)
    /\ AllMatchPasses(check, resp)
    /\ MatchPasses(check, resp)
    /\ NoMatchPasses(check, resp)
    /\ HeadersPass(check, resp)
    /\ NoHeadersPass(check, resp)

\* ------------------------------------------------------------------------
\* C13.  For every check and response Match returns true if and only if
\* every configured condition passes: the status equals status_code when it
\* is set, every all_match string is in the body, one match string is in the
\* body when the list is not empty, no no_match string is in the body, and
\* the header conditions pass.  Conditions that are not set do not count: a
\* check with none matches every response, and a check with status_code X
\* matches no response of another status.
\* (The required headers are where the code departs from it: C12, C15.)
\* ------------------------------------------------------------------------
C13_MatchIffAllPass ==
    mResult # "none" => (mResult = "true" <=> ConditionsPass(mCheck, mResp))

\* The part of C13 the code keeps: the equivalence holds for every check
\* whose headers entries have one colon each, the checks with no condition
\* and with a status_code among them.
MatchIffAllPassOneColon ==
    (mResult # "none" /\ \A i \in DOMAIN mCheck.Headers : Len(Split(mCheck.Headers[i])) = 2)
        => /\ mResult \in {"true", "false"}
           /\ mResult = "true" <=> ConditionsPass(mCheck, mResp)

\* ------------------------------------------------------------------------
\* C15.  Match is total: for every check and response it returns true or
\* false and never ends in a run-time error, also when an entry of headers
\* or no_headers has no colon, the response carrying the named header or
\* not.
\* (A headers entry with no colon whose header the response carries with a
\* value makes pHeaders[1] an index out of range.)
\* ------------------------------------------------------------------------
C15_MatchTotal == mResult # "panic"

\* The part of C15 the code keeps: an entry of no_headers never makes Match
\* end in a run-time error, with a colon or without.
NoHeadersNeverPanics ==
    (mResult # "none" /\ mCheck.Headers = << >>) => mResult \in {"true", "false"}

\* ========================================================================
\* Further properties of the filters (SpecFilter).
\* ========================================================================
\* A view with the checks keep rejects taken out, and then the plugins left
\* with no check; what stays keeps its order.
FilteredView(view, keep(_)) ==
    LET cut(e) == [plugin |-> e.plugin, checks |-> SelectSeq(e.checks, keep)]
        some(e) == e.checks # << >>
    IN SelectSeq([i \in DOMAIN view |-> cut(view[i])], some)

\* name contains an entry of names, letter case set aside.
NameContainsAny(name, names) ==
    \E i \in DOMAIN names : Contains(ToLower(name), ToLower(names[i]))

\* Either filter, called on mem with any of the arguments a step can take,
\* leaves exactly the checks the argument selects.
ExactResults(mem) ==
    /\ \A l \in SeverityArgs :
           View(FilterBySeverity(mem, l))
              = FilteredView(View(mem), LAMBDA c : c.Severity = l)
    /\ \A ns \in NameArgs :
           View(FilterByNames(mem, ns))
              = FilteredView(View(mem), LAMBDA c : NameContainsAny(c.Name, ns))

\* Every plugin of the view has a check.
NoEmptyPlugin(view) == \A i \in DOMAIN view : view[i].checks # << >>

\* Every plugin of view is a plugin of older, with checks it had there.
WithinView(view, older) ==
    \A i \in DOMAIN view :
        \E j \in DOMAIN older :
            /\ view[i].plugin = older[j].plugin
            /\ \A k \in DOMAIN view[i].checks :
                   \E n \in DOMAIN older[j].checks : view[i].checks[k] = older[j].checks[n]

\* ------------------------------------------------------------------------
\* C14.  After FilterBySeverity(level) the signature set holds, in their
\* original relative order, exactly the checks whose severity equals level,
\* and after FilterByNames(names) exactly the checks whose name contains an
\* entry of names, letter case set aside; after any sequence of these
\* filters every remaining plugin has a check and the remaining plugins and
\* checks are among the original ones (each call keeps them among those
\* before it).
\* ------------------------------------------------------------------------
C14_FilterResults ==
    /\ []ExactResults(fMem)
    /\ [][/\ NoEmptyPlugin(View(fMem'))
          /\ WithinView(View(fMem'), View(fMem))]_vars

\* FilterByNames has run on signatures of two plugins: the first is gone,
\* the second stands in its place with one check of its two.
C14_Witness ==
    /\ fOps.n = 1 /\ fOps.last = "names"
    /\ Len(fMem.arr) = 2 /\ fMem.len = 1 /\ fMem.arr[1] = 2
    /\ Len(fMem.heap[2].arr) = 2 /\ fMem.heap[2].len = 1

\* ========================================================================
\* Progress of the scan (app/scan.go, Scan, lines 91-170).
\* ========================================================================
\* The scans whose progress is followed: every configuration and domain
\* list, with no threshold or with one in the middle of the scale (the
\* threshold has no part in what the goroutines and the barrier do).
InitLive == Init /\ blockedFlag \in {"", "Medium"}

\* The scan with no stop signal, its goroutines scheduled and its requests
\* answered: a goroutine that can take a step takes one, and HTTPGet returns
\* a response or, at the latest when the request timeout runs out, an error.
\* No goroutine of Scan loops without end, so it is enough that some enabled
\* step is always taken.
SpecLive == InitLive /\ [][Next]_vars /\ WF_vars(Next)

\* Every goroutine has run through its plugins and called wg.Done().
AllWorkersDone == \A w \in Workers : wpc[w] = "done"

\* hit, block and out are read for the export (lines 145-153) and for the
\* exit decision (lines 162-168), or have been.
ReadForOutput == BarrierPassed \/ exported # Nil

\* ------------------------------------------------------------------------
\* C16.  In a scan that is not cancelled the export of the results and the
\* exit decision come only after every domain goroutine has finished all its
\* plugins (the wait barrier): out, hit and block are never read for output
\* while a goroutine can still write them.  And provided every HTTP request
\* returns in the end, with a response or an error, a scan that has started
\* its goroutines reaches the export and the exit decision.
\* ------------------------------------------------------------------------
C16_ExportAfterBarrier ==
    /\ [](ReadForOutput => AllWorkersDone)
    /\ [](ScanEnded /\ hit => exported # Nil)
    /\ (mainPc = "wait" ~> ScanEnded)

\* A scan of two domains has ended with its results exported, one of its
\* requests having returned an error and another a response.
C16_Witness ==
    /\ ScanEnded /\ Len(urlList) = 2 /\ exported # Nil
    /\ AllWorkersDone
    /\ \E pr \in Pairs : got[pr] = <<Nil>>
    /\ \E pr \in Pairs : got[pr] # << >> /\ got[pr] # <<Nil>>

====
